---- MODULE Spec2Model ----
(***************************************************************************)
(* A model of cobalt_python_novaclient_ext/__init__.py: the novaclient     *)
(* extension that maps the live-image-* / cobalt-* subcommands onto REST   *)
(* requests of the cobalt API.                                             *)
(*                                                                         *)
(* Strings are sequences of tokens.  A token is either one of the two      *)
(* separator characters "," and "=" or a run of characters that holds      *)
(* neither, so str.split(",") and str.split("=", 1) act on a token         *)
(* sequence exactly as they act on the characters.  "" is << >>.           *)
(***************************************************************************)
EXTENDS Integers, Sequences, FiniteSets, TLC

VARIABLES
    arg_nics,       \* parse_nics_arg: the argument, a list of nic strings
    nics_result,    \* parse_nics_arg: what the call did (return or raise)
    capabilities,   \* the manager's capabilities attribute (has: hasattr)
    api_caps,       \* the capability list the server reports at present
    reported,       \* the list the answered GET /gcinfo carried
    cap_calls,      \* satisfies / cobalt-capabilities (no --all) calls so far
    gcinfo_sent,    \* GET /gcinfo requests sent so far
    gcinfo_failed,  \* GET /gcinfo requests that failed so far
    cap_call,       \* the last satisfies / cobalt-capabilities call
    requests,       \* the requests the last call sent through the client
    command,        \* the subcommand handler invoked last, with its arguments
    outcome,        \* how that invocation ended
    launch_args,    \* start_live_image: the keyword arguments of the call
    launch_called,  \* start_live_image: whether the call was made
    launch_params,  \* start_live_image: the params handed to gc_launch
    arg_hints,      \* do_live_image_start: args._scheduler_hints
    hints_result,   \* do_live_image_start: scheduler_hints after the loop
    import_data,    \* do_live_image_import: the document json.load returned
    import_override,\* do_live_image_import: args.override
    import_result,  \* do_live_image_import: how the merge ended, and data
    alias_call,     \* the deprecated alias called: receiver, name, arguments
    alias_result,   \* what that call did: the run it took, the params it sent
    client_before,  \* the attributes each client had before any construction
    client_cobalt,  \* each client's cobalt attribute
    client_gridcentric, \* each client's gridcentric attribute
    managers        \* the CoServerManagers constructed: the client of each

varsNics == <<arg_nics, nics_result>>
varsCaps == <<capabilities, api_caps, reported, cap_calls, gcinfo_sent,
              gcinfo_failed, cap_call>>
varsCmd == <<command, outcome>>
varsLaunch == <<launch_args, launch_called, launch_params>>
varsHints == <<arg_hints, hints_result>>
varsImport == <<import_data, import_override, import_result>>
varsAlias == <<alias_call, alias_result>>
varsClient == <<client_before, client_cobalt, client_gridcentric, managers>>
varsRest == <<varsHints, varsImport, varsAlias, varsClient>>
varsPure == <<varsNics, varsLaunch, varsRest>>
vars == <<varsNics, varsCaps, requests, varsCmd, varsLaunch, varsRest>>

(***************************************************************************)
(* Bounds                                                                  *)
(***************************************************************************)
MaxNics == 2        \* longest --nic list handed to parse_nics_arg
MaxCalls == 3       \* satisfies / cobalt-capabilities calls on one manager
MaxReturned == 1    \* most servers an action's response lists
MaxData == 3        \* longest user data, in bytes or code points
MaxNets == 2        \* longest networks list handed to start_live_image
MaxHints == 3       \* longest --hint list handed to do_live_image_start
MaxOverrides == 2   \* most elements of one --override string
MaxManagers == 3    \* most CoServerManagers constructed

(***************************************************************************)
(* String helpers (Python's str.split)                                     *)
(***************************************************************************)
EmptyStr == << >>

\* index of the first occurrence of token sep in s, 0 when there is none
RECURSIVE IndexFrom(_, _, _)
IndexFrom(s, sep, i) ==
    IF i > Len(s) THEN 0
    ELSE IF s[i] = sep THEN i
    ELSE IndexFrom(s, sep, i + 1)

IndexOf(s, sep) == IndexFrom(s, sep, 1)

\* s.split(sep): every piece between separators, "" gives [""]
RECURSIVE Split(_, _)
Split(s, sep) ==
    LET i == IndexOf(s, sep)
    IN  IF i = 0 THEN <<s>>
        ELSE <<SubSeq(s, 1, i - 1)>> \o Split(SubSeq(s, i + 1, Len(s)), sep)

\* s.split(sep, 1): at most one split, at the first separator
Split1(s, sep) ==
    LET i == IndexOf(s, sep)
    IN  IF i = 0 THEN <<s>>
        ELSE <<SubSeq(s, 1, i - 1), SubSeq(s, i + 1, Len(s))>>

(***************************************************************************)
(* parse_nics_arg                                                          *)
(***************************************************************************)
NicKeys == {"net-id", "v4-fixed-ip", "port-id"}

\* nic_info = {"net-id": "", "v4-fixed-ip": "", "port-id": ""}
NicInfoInit == [k \in NicKeys |-> EmptyStr]

\* k in nic_info, for a key string k
NicKeyKnown(k) == Len(k) = 1 /\ k[1] \in NicKeys

\* NicInfoSet, wrongly: a value once given is kept
NicInfoKeepFirst(nic_info, k, v) ==
    IF nic_info[k[1]] = EmptyStr THEN [nic_info EXCEPT ![k[1]] = v] ELSE nic_info

\* nic_info[k] = v
NicInfoSet(nic_info, k, v) == [nic_info EXCEPT ![k[1]] = v]

\* k, v = kv_str.split("=", 1) raises ValueError when there is no "="
KvSplit(kv_str) == Split1(kv_str, "=")

\* not nic_info['net-id'] and not nic_info['port-id']
NicLacksId(nic_info) ==
    nic_info["net-id"] = EmptyStr /\ nic_info["port-id"] = EmptyStr

\* NicKeyAccepted, wrongly: any one-word key is taken
NicKeyAny(k) == Len(k) = 1

\* the unknown-key test of the inner loop
NicKeyAccepted(k) == NicKeyKnown(k)

\* the inner loop over nic_str.split(","), from piece i on
RECURSIVE NicLoop(_, _, _)
NicLoop(pieces, i, nic_info) ==
    IF i > Len(pieces) THEN [raised |-> FALSE, nic_info |-> nic_info]
    ELSE LET kv == KvSplit(pieces[i])
         IN  IF Len(kv) # 2
             THEN [raised |-> TRUE, nic_info |-> nic_info]
             ELSE IF NicKeyAccepted(kv[1])
             THEN NicLoop(pieces, i + 1, NicInfoSet(nic_info, kv[1], kv[2]))
             ELSE [raised |-> TRUE, nic_info |-> nic_info]

\* one iteration of the outer loop: the nic_info of nic_str, or a raise
ParseNicStr(nic_str) ==
    LET r == NicLoop(Split(nic_str, ","), 1, NicInfoInit)
    IN  IF r.raised THEN r
        ELSE IF NicLacksId(r.nic_info) THEN [raised |-> TRUE, nic_info |-> r.nic_info]
        ELSE r

\* the outer loop: nics.append(nic_info) until a nic string raises
RECURSIVE NicsLoop(_, _, _)
NicsLoop(nic_strs, i, nics) ==
    IF i > Len(nic_strs)
    THEN [returned |-> TRUE, raised |-> "none", value |-> nics]
    ELSE LET r == ParseNicStr(nic_strs[i])
         IN  IF r.raised
             THEN [returned |-> FALSE, raised |-> "CommandError", value |-> << >>]
             ELSE NicsLoop(nic_strs, i + 1, Append(nics, r.nic_info))

parse_nics_arg(nic_strs) == NicsLoop(nic_strs, 1, << >>)

(***************************************************************************)
(* The --nic strings tried: each is the rendering of a list of pieces, a   *)
(* piece being key=value or a bare word.                                   *)
(***************************************************************************)
Piece(k, eq, v) == [k |-> k, eq |-> eq, v |-> v]

RenderPiece(p) == IF p.eq THEN p.k \o <<"=">> \o p.v ELSE p.k

RECURSIVE RenderNic(_)
RenderNic(ps) ==
    IF Len(ps) = 0 THEN EmptyStr
    ELSE IF Len(ps) = 1 THEN RenderPiece(ps[1])
    ELSE RenderPiece(ps[1]) \o <<",">> \o RenderNic(Tail(ps))

FirstPieces ==
    {Piece(<<k>>, TRUE, v) : k \in NicKeys \cup {"bogus"}, v \in {EmptyStr, <<"u">>}}
    \cup {Piece(<<"u">>, FALSE, EmptyStr), Piece(EmptyStr, FALSE, EmptyStr),
          Piece(EmptyStr, TRUE, <<"u">>), Piece(<<"net-id">>, TRUE, <<"u", "=", "w">>)}

HeadPieces ==
    {Piece(<<"net-id">>, TRUE, <<"u">>), Piece(<<"net-id">>, TRUE, EmptyStr),
     Piece(<<"port-id">>, TRUE, <<"u">>), Piece(<<"v4-fixed-ip">>, TRUE, <<"u">>)}

TailPieces ==
    {Piece(<<k>>, TRUE, <<"w">>) : k \in NicKeys \cup {"bogus"}}
    \cup {Piece(<<"w">>, FALSE, EmptyStr), Piece(<<"net-id">>, TRUE, EmptyStr),
          Piece(EmptyStr, FALSE, EmptyStr)}

NicStructs ==
    {<<p>> : p \in FirstPieces}
    \cup {<<p, q>> : p \in HeadPieces, q \in TailPieces}
    \cup {<<Piece(<<"net-id">>, TRUE, <<"u">>), Piece(<<"v4-fixed-ip">>, TRUE, <<"a">>),
            Piece(<<"port-id">>, TRUE, <<"w">>)>>,
          <<Piece(<<"port-id">>, TRUE, <<"u">>), Piece(<<"port-id">>, TRUE, <<"w">>),
            Piece(<<"port-id">>, TRUE, EmptyStr)>>}

NicStrings == {RenderNic(ps) : ps \in NicStructs}

NotCalled == [returned |-> FALSE, raised |-> "none", value |-> << >>]

(***************************************************************************)
(* Requests sent through the REST client.  error is "none" when the        *)
(* request was answered, else the exception the client raised.             *)
(***************************************************************************)
Req(kind, name, id, error) == [kind |-> kind, name |-> name, id |-> id, error |-> error]

Failures == {"NotFound", "ClientException"}

\* no handler invoked yet
NoCommand == [handler |-> "none", live_image |-> FALSE, nics |-> << >>,
              file |-> "none", num_instances |-> "1", override |-> "none"]

NoOutcome == [raised |-> "none", by |-> 0]

\* the hint loop has not run
IdleHints ==
    /\ arg_hints = << >>
    /\ hints_result = [done |-> FALSE, hints |-> << >>]

\* do_live_image_import has not run
NoImport == [done |-> FALSE, raised |-> "none", imported |-> FALSE, data |-> << >>]

IdleImport ==
    /\ import_data = << >>
    /\ import_override = [none |-> TRUE, v |-> << >>]
    /\ import_result = NoImport

\* no alias called
NoAliasCall ==
    [on |-> "none", name |-> "none", args |-> NoCommand, server |-> "",
     kwargs |-> << >>]

IdleAlias ==
    /\ alias_call = NoAliasCall
    /\ alias_result = [params |-> << >>, run |-> << >>]

\* the clients managers are constructed on
Clients == {"c1", "c2"}

\* what a client attribute refers to: of kind "absent", nothing (hasattr is
\* false); of kind "other", an object put there by other code; of kind
\* "manager", the n-th CoServerManager constructed
Attribute(kind, n) == [kind |-> kind, n |-> n]

\* clients without attributes, no manager constructed
IdleClient ==
    /\ client_before = [cobalt |-> [c \in Clients |-> Attribute("absent", 0)],
                        gridcentric |-> [c \in Clients |-> Attribute("absent", 0)]]
    /\ client_cobalt = [c \in Clients |-> Attribute("absent", 0)]
    /\ client_gridcentric = [c \in Clients |-> Attribute("absent", 0)]
    /\ managers = << >>

\* the parts of the program a specification leaves untouched
IdleRest == IdleHints /\ IdleImport /\ IdleAlias /\ IdleClient

(***************************************************************************)
(* base64 and UTF-8.  Bytes are 0..255, code points are naturals, and a    *)
(* base64 text is the sequence of the positions of its characters in the   *)
(* base64 alphabet, 64 standing for the padding character "=".             *)
(***************************************************************************)
\* base64.b64encode
RECURSIVE b64encode(_)
b64encode(bytes) ==
    IF Len(bytes) = 0 THEN << >>
    ELSE IF Len(bytes) = 1
    THEN <<bytes[1] \div 4, (bytes[1] % 4) * 16, 64, 64>>
    ELSE IF Len(bytes) = 2
    THEN <<bytes[1] \div 4, ((bytes[1] % 4) * 16) + (bytes[2] \div 16),
           (bytes[2] % 16) * 4, 64>>
    ELSE <<bytes[1] \div 4, ((bytes[1] % 4) * 16) + (bytes[2] \div 16),
           ((bytes[2] % 16) * 4) + (bytes[3] \div 64), bytes[3] % 64>>
         \o b64encode(SubSeq(bytes, 4, Len(bytes)))

\* unicode.encode('utf-8'), one code point
Utf8Char(cp) ==
    IF cp < 128 THEN <<cp>>
    ELSE IF cp < 2048 THEN <<192 + (cp \div 64), 128 + (cp % 64)>>
    ELSE IF cp < 65536
    THEN <<224 + (cp \div 4096), 128 + ((cp \div 64) % 64), 128 + (cp % 64)>>
    ELSE <<240 + (cp \div 262144), 128 + ((cp \div 4096) % 64),
           128 + ((cp \div 64) % 64), 128 + (cp % 64)>>

RECURSIVE Utf8Encode(_)
Utf8Encode(cps) ==
    IF cps = << >> THEN << >> ELSE Utf8Char(cps[1]) \o Utf8Encode(Tail(cps))

(***************************************************************************)
(* CoServerManager.start_live_image: the params of the gc_launch action    *)
(***************************************************************************)
None == [none |-> TRUE, v |-> << >>]

Some(v) == [none |-> FALSE, v |-> v]

\* user_data: None, a file-like object, a unicode string or a byte string
UserData(kind, content) == [kind |-> kind, content |-> content]

\* UserDataTruthy, wrongly: the test is "user_data is not None"
UserDataNotNone(user_data) == user_data.kind # "None"

\* if user_data:
UserDataTruthy(user_data) ==
    user_data.kind = "file"
    \/ (user_data.kind \in {"unicode", "str"} /\ user_data.content # << >>)

\* real_user_data
RealUserData(user_data) ==
    IF user_data.kind = "file" THEN user_data.content
    ELSE IF user_data.kind = "unicode" THEN Utf8Encode(user_data.content)
    ELSE user_data.content

\* nic_info.get(key): None when the key is absent, and None is false
NicGet(nic_info, key) == IF key \in DOMAIN nic_info THEN nic_info[key] ELSE << >>

\* NetData, wrongly: empty values are sent too
NetDataAlways(nic_info) ==
    [k \in {"uuid", "fixed_ip", "port"} |->
        IF k = "uuid" THEN NicGet(nic_info, "net-id")
        ELSE IF k = "fixed_ip" THEN NicGet(nic_info, "v4-fixed-ip")
        ELSE NicGet(nic_info, "port-id")]

\* net_data of one nic_info: a value that is empty is not sent
NetData(nic_info) ==
    (IF NicGet(nic_info, "net-id") # << >>
        THEN "uuid" :> nic_info["net-id"] ELSE << >>)
    @@ (IF NicGet(nic_info, "v4-fixed-ip") # << >>
        THEN "fixed_ip" :> nic_info["v4-fixed-ip"] ELSE << >>)
    @@ (IF NicGet(nic_info, "port-id") # << >>
        THEN "port" :> nic_info["port-id"] ELSE << >>)

AllNetData(networks) == [i \in 1..Len(networks) |-> NetData(networks[i])]

\* the networks entry: set when networks is not None and all_net_data is
\* not empty
NetworksParam(networks) ==
    IF networks.none THEN << >>
    ELSE IF Len(AllNetData(networks.v)) > 0
    THEN "networks" :> AllNetData(networks.v)
    ELSE << >>

StartLiveImageParams(args) ==
    [k \in {"guest", "security_groups", "availability_zone", "scheduler_hints",
            "num_instances", "key_name"} |-> args[k]]
    @@ (IF ~args.name.none THEN "name" :> args.name.v ELSE << >>)
    @@ (IF UserDataTruthy(args.user_data)
        THEN "user_data" :> b64encode(RealUserData(args.user_data)) ELSE << >>)
    @@ NetworksParam(args.networks)

(***************************************************************************)
(* The arguments start_live_image is tried on                              *)
(***************************************************************************)
Bytes == {0, 77, 255}
CodePoints == {65, 233, 8364, 128512}

SeqsUpTo(S, n) == UNION {[1..m -> S] : m \in 0..n}

UserDatas ==
    {UserData("None", << >>)}
    \cup {UserData(kind, c) : kind \in {"file", "str"}, c \in SeqsUpTo(Bytes, MaxData)}
    \cup {UserData("unicode", c) : c \in SeqsUpTo(CodePoints, MaxData)}

\* nic dictionaries: any of the three keys, absent, empty or set
NicDicts == UNION {[ks -> {<< >>, <<"u">>}] : ks \in SUBSET NicKeys}

NetworkLists == {None} \cup {Some(l) : l \in SeqsUpTo(NicDicts, MaxNets)}

Names == {None, Some(<< >>), Some(<<"vm">>)}

LaunchArgs(names, targets, user_datas, networks) ==
    [target : targets, name : names, user_data : user_datas, networks : networks,
     guest : {"guest_params"}, security_groups : {"security_groups"},
     availability_zone : {"availability_zone"},
     scheduler_hints : {"scheduler_hints"}, num_instances : {"num_instances"},
     key_name : {"key_name"}]

NoLaunchArgs ==
    CHOOSE a \in LaunchArgs({None}, {None}, {UserData("None", << >>)}, {None}) : TRUE

IdleLaunch ==
    /\ launch_args = NoLaunchArgs
    /\ launch_called = FALSE
    /\ launch_params = << >>

(***************************************************************************)
(* Capability negotiation and its cache on the manager                     *)
(***************************************************************************)
CapabilityNames ==
    {"user-data", "launch-name", "security-groups", "num-instances",
     "availability-zone", "bless-name", "launch-key", "import-export",
     "scheduler-hints", "install-policy", "get-policy", "supports-volumes",
     "launch-nics"}

\* each capability name with the list of API capabilities it depends on
CAPABILITIES == [cap \in CapabilityNames |-> <<cap>>]

\* what the server may report, and what a caller may require
ApiCapNames == {"user-data", "launch-nics", "other-cap"}
ReqNames == {"user-data", "launch-nics", "no-such-cap"}

NoCapabilities == [has |-> FALSE, caps |-> {}]

\* all([api_req in api_caps for api_req in CAPABILITIES[cap]])
AllDepsReported(cap, L) == \A i \in 1..Len(CAPABILITIES[cap]) : CAPABILITIES[cap][i] \in L

\* Negotiate, wrongly: every capability is taken as supported
NegotiateAll(L) == DOMAIN CAPABILITIES

\* the list setup_capabilities stores, as a set
Negotiate(L) == {cap \in DOMAIN CAPABILITIES : AllDepsReported(cap, L)}

\* set(requirements) <= set(self.capabilities)
Satisfied(R, caps) == R \subseteq caps

\* self.api.client.get("/gcinfo")
GcInfo(error) == Req("GET", "/gcinfo", "", error)

NoCapCall == [op |-> "none", requirements |-> {}, all |-> FALSE,
              raised |-> "none", value |-> FALSE, printed |-> {}]

CapsInit(lists) ==
    /\ capabilities = NoCapabilities
    /\ api_caps \in lists
    /\ reported = {}
    /\ cap_calls = 0
    /\ gcinfo_sent = 0
    /\ gcinfo_failed = 0
    /\ cap_call = NoCapCall

\* a manager just constructed, the server reporting nothing
IdleCaps == CapsInit({{}})

\* the server is replaced by one that reports another capability list
ServerChanges ==
    /\ \E L \in SUBSET ApiCapNames : L # api_caps /\ api_caps' = L
    /\ UNCHANGED <<capabilities, reported, cap_calls, gcinfo_sent, gcinfo_failed,
                   cap_call, requests>>

\* CacheUsable, wrongly: the cached list is never used
CacheNever(c) == FALSE

\* whether the cached list may be used without asking the server
CacheUsable(c) == c.has

\* setup_capabilities, when GET /gcinfo is answered with the list L
CapsAnswered(L) ==
    /\ capabilities' = [has |-> TRUE, caps |-> Negotiate(L)]
    /\ reported' = L
    /\ gcinfo_sent' = gcinfo_sent + 1
    /\ UNCHANGED gcinfo_failed

\* setup_capabilities, when GET /gcinfo raises: the attribute is not set
CapsFailed ==
    /\ gcinfo_sent' = gcinfo_sent + 1
    /\ gcinfo_failed' = gcinfo_failed + 1
    /\ UNCHANGED <<capabilities, reported>>

\* CoServerManager.satisfies(requirements)
SatisfiesCall(R) ==
    /\ cap_calls < MaxCalls
    /\ cap_calls' = cap_calls + 1
    /\ IF CacheUsable(capabilities)
       THEN /\ requests' = << >>
            /\ cap_call' = [NoCapCall EXCEPT !.op = "satisfies", !.requirements = R,
                                !.value = Satisfied(R, capabilities.caps)]
            /\ UNCHANGED <<capabilities, reported, gcinfo_sent, gcinfo_failed>>
       ELSE \/ /\ CapsAnswered(api_caps)
               /\ requests' = <<GcInfo("none")>>
               /\ cap_call' = [NoCapCall EXCEPT !.op = "satisfies",
                                   !.requirements = R,
                                   !.value = Satisfied(R, capabilities'.caps)]
            \/ \E e \in Failures :
               /\ CapsFailed
               /\ requests' = <<GcInfo(e)>>
               /\ cap_call' = [NoCapCall EXCEPT !.op = "satisfies",
                                   !.requirements = R, !.raised = e]
    /\ UNCHANGED api_caps

Satisfies == \E R \in SUBSET ReqNames : SatisfiesCall(R)

\* do_cobalt_capabilities without --all: the lines left after eliding
CapabilitiesListed ==
    /\ cap_calls < MaxCalls
    /\ cap_calls' = cap_calls + 1
    /\ IF CacheUsable(capabilities)
       THEN /\ requests' = << >>
            /\ cap_call' = [NoCapCall EXCEPT !.op = "cobalt-capabilities",
                   !.printed = DOMAIN CAPABILITIES
                               \ (DOMAIN CAPABILITIES \ capabilities.caps)]
            /\ UNCHANGED <<capabilities, reported, gcinfo_sent, gcinfo_failed>>
       ELSE \/ /\ CapsAnswered(api_caps)
               /\ requests' = <<GcInfo("none")>>
               /\ cap_call' = [NoCapCall EXCEPT !.op = "cobalt-capabilities",
                      !.printed = DOMAIN CAPABILITIES
                                  \ (DOMAIN CAPABILITIES \ capabilities'.caps)]
            \/ \E e \in Failures :
               /\ CapsFailed
               /\ requests' = <<GcInfo(e)>>
               /\ cap_call' = [NoCapCall EXCEPT !.op = "cobalt-capabilities",
                                   !.raised = e]
    /\ UNCHANGED api_caps

\* do_cobalt_capabilities --all: every capability, no request
CapabilitiesAll ==
    /\ requests' = << >>
    /\ cap_call' = [NoCapCall EXCEPT !.op = "cobalt-capabilities", !.all = TRUE,
                        !.printed = DOMAIN CAPABILITIES]
    /\ UNCHANGED <<capabilities, api_caps, reported, cap_calls, gcinfo_sent,
                   gcinfo_failed>>

do_cobalt_capabilities == CapabilitiesListed \/ CapabilitiesAll

NextCaps ==
    \/ ServerChanges /\ UNCHANGED <<varsPure, varsCmd>>
    \/ Satisfies /\ UNCHANGED <<varsPure, varsCmd>>
    \/ do_cobalt_capabilities /\ UNCHANGED <<varsPure, varsCmd>>

\* a manager just constructed, whatever the server reports
InitCaps ==
    /\ CapsInit(SUBSET ApiCapNames)
    /\ arg_nics = << >>
    /\ nics_result = NotCalled
    /\ requests = << >>
    /\ command = NoCommand
    /\ outcome = NoOutcome
    /\ IdleLaunch
    /\ IdleRest

SpecCaps == InitCaps /\ [][NextCaps]_vars

(***************************************************************************)
(* SpecNics: parse_nics_arg on every list of at most MaxNics nic strings   *)
(***************************************************************************)
InitNics ==
    /\ arg_nics = << >>
    /\ nics_result = NotCalled
    /\ IdleCaps
    /\ requests = << >>
    /\ command = NoCommand
    /\ outcome = NoOutcome
    /\ IdleLaunch
    /\ IdleRest

\* the argument parser appends one more --nic value (action='append')
AddNic ==
    /\ ~nics_result.returned /\ nics_result.raised = "none"
    /\ Len(arg_nics) < MaxNics
    /\ \E s \in NicStrings : arg_nics' = Append(arg_nics, s)
    /\ UNCHANGED <<nics_result, varsCaps, requests, varsCmd, varsLaunch, varsRest>>

ParseNicsArg ==
    /\ ~nics_result.returned /\ nics_result.raised = "none"
    /\ nics_result' = parse_nics_arg(arg_nics)
    /\ UNCHANGED <<arg_nics, varsCaps, requests, varsCmd, varsLaunch, varsRest>>

NextNics == AddNic \/ ParseNicsArg

SpecNics == InitNics /\ [][NextNics]_vars

(***************************************************************************)
(* Runs.  A run is one way a piece of code can go: the requests it sends,  *)
(* in order, the exception it ends with ("none" when it returns), the      *)
(* position in reqs of the request that raised it (0 when the code itself  *)
(* raised) and the value returned (a list of server ids).  A call that may *)
(* go several ways is the set of its runs.                                 *)
(***************************************************************************)
ServerIds == {"s1", "s2"}

\* the server lists an action's response may carry
InfoLists == UNION {[1..n -> ServerIds] : n \in 0..MaxReturned}

\* utils.find_resource reports a missing server as a CommandError
LookupFailures == Failures \cup {"CommandError"}

Done(reqs, value) == [reqs |-> reqs, raised |-> "none", by |-> 0, value |-> value]

Raise(e) == [reqs |-> << >>, raised |-> e, by |-> 0, value |-> << >>]

Sent(kind, name, id, value) == Done(<<Req(kind, name, id, "none")>>, value)

Refused(kind, name, id, e) ==
    [reqs |-> <<Req(kind, name, id, e)>>, raised |-> e, by |-> 1, value |-> << >>]

\* a followed by b
Join(a, b) ==
    [reqs |-> a.reqs \o b.reqs, raised |-> b.raised,
     by |-> IF b.by = 0 THEN 0 ELSE Len(a.reqs) + b.by, value |-> b.value]

\* the runs of A, each that returns followed by a run of F[its value]: an
\* exception ends the run where it is raised
\* the values a run may return
Values == InfoLists \cup {<<id>> : id \in ServerIds}

Bind(A, F) ==
    {a \in A : a.raised # "none"}
    \cup UNION {{Join(a, b) : b \in F[a.value]} : a \in {x \in A : x.raised = "none"}}

Then(A, B) == Bind(A, [v \in Values |-> B])

\* _find_server(cs, name): utils.find_resource(cs.cobalt, name)
FindServer ==
    {Sent("find", "servers", id, <<id>>) : id \in ServerIds}
    \cup {Refused("find", "servers", "", e) : e \in LookupFailures}

\* Action, wrongly: the action goes to another server
ActionOnOther(name, id) ==
    LET other == CHOOSE x \in ServerIds : x # id
    IN  {Sent("action", name, other, << >>)}
        \cup {Refused("action", name, other, e) : e \in Failures}

\* Action, wrongly: the action is sent a second time
ActionTwice(name, id) ==
    Then({Sent("action", name, id, << >>)}, {Sent("action", name, id, << >>)})

\* self._action(name, base.getid(server), ...)
Action(name, id) ==
    {Sent("action", name, id, << >>)}
    \cup {Refused("action", name, id, e) : e \in Failures}

\* header, info = self._action(name, base.getid(server), ...)
ListAction(name, id) ==
    {Sent("action", name, id, info) : info \in InfoLists}
    \cup {Refused("action", name, id, e) : e \in Failures}

\* Get, wrongly: a server that cannot be fetched is left out
GetSkipFailed(id) ==
    {Sent("get", "servers", id, <<id>>)}
    \cup {Done(<<Req("get", "servers", id, e)>>, << >>) : e \in Failures}

\* self.get(server['id'])
Get(id) ==
    {Sent("get", "servers", id, <<id>>)}
    \cup {Refused("get", "servers", id, e) : e \in Failures}

\* [self.get(server['id']) for server in info]
RECURSIVE Gets(_)
Gets(info) ==
    IF info = << >> THEN {Done(<< >>, << >>)}
    ELSE Bind(Get(info[1]),
              [first \in Values |->
                  Bind(Gets(Tail(info)),
                       [rest \in Values |-> {Done(<< >>, first \o rest)}])])

GetAll == [info \in Values |-> Gets(info)]

(***************************************************************************)
(* _print_server                                                           *)
(***************************************************************************)
\* if not 'flavor' in server._info: server = shell._find_server(cs, server.id)
Refind(id) ==
    {Done(<< >>, <<id>>), Sent("find", "servers", id, <<id>>)}
    \cup {Refused("find", "servers", id, e) : e \in Failures}

\* info['flavor'] = shell._find_flavor(cs, flavor_id).name
FindFlavor ==
    {Sent("flavor", "flavors", "f1", << >>)}
    \cup {Refused("flavor", "flavors", "f1", e) : e \in Failures}

\* the except: clause around shell._find_image: "Image not found" is shown
ImageFailureShown(e) == Done(<<Req("image", "images", "i1", e)>>, << >>)

\* the image line: no lookup when the server has no image (boot from volume)
FindImage ==
    {Done(<< >>, << >>), Sent("image", "images", "i1", << >>)}
    \cup {ImageFailureShown(e) : e \in Failures}

_print_server(id) == Then(Refind(id), Then(FindFlavor, FindImage))

\* for server in servers: _print_server(cs, server)
RECURSIVE PrintServers(_)
PrintServers(servers) ==
    IF servers = << >> THEN {Done(<< >>, << >>)}
    ELSE Then(_print_server(servers[1]), PrintServers(Tail(servers)))

PrintAll == [servers \in Values |-> PrintServers(servers)]

(***************************************************************************)
(* CoServerManager methods                                                 *)
(***************************************************************************)
start_live_image(id) == Bind(ListAction("gc_launch", id), GetAll)

create_live_image(id) == Bind(ListAction("gc_bless", id), GetAll)

delete_live_image(id) == Action("gc_discard", id)

migrate(id) == Action("gc_migrate", id)

list_live_image_servers(id) == Bind(ListAction("gc_list_launched", id), GetAll)

list_live_images(id) == Bind(ListAction("gc_list_blessed", id), GetAll)

export(id) == Action("gc_export", id)

get_policy(id) == Action("co_get_policy", id)

\* self._create("/gc-import-server", body, 'server')
import_instance ==
    {Sent("POST", "/gc-import-server", "", <<id>>) : id \in ServerIds}
    \cup {Refused("POST", "/gc-import-server", "", e) : e \in Failures}

\* self.api.client.post("/gcpolicy", body=body)
install_policy ==
    {Sent("POST", "/gcpolicy", "", << >>)}
    \cup {Refused("POST", "/gcpolicy", "", e) : e \in Failures}

\* agent.install(server, ...): works over ssh, not through the REST client
install_agent == {Done(<< >>, << >>), Raise("AgentError")}

(***************************************************************************)
(* The subcommand handlers, as the runs each can take                      *)
(***************************************************************************)
ValidNic == <<"net-id", "=", "u", ",", "v4-fixed-ip", "=", "a">>
BadNic == <<"v4-fixed-ip", "=", "a">>

\* the --nic lists handed to live-image-start
CmdNics == {<< >>, <<ValidNic>>, <<BadNic>>, <<ValidNic, BadNic>>}

\* StartChecks, wrongly: the --nic values are not parsed
StartChecksNicsUnchecked(args) ==
    IF args.file = "unreadable" THEN "IOError"
    ELSE IF args.num_instances # "1" THEN "ValueError"
    ELSE "none"

\* the checks of do_live_image_start between the lookup and the launch
StartChecks(args) ==
    IF args.file = "unreadable" THEN "IOError"
    ELSE IF parse_nics_arg(args.nics).raised # "none" THEN "CommandError"
    ELSE IF args.num_instances # "1" THEN "ValueError"
    ELSE "none"

\* the test on args.live_image that opens do_live_image_start
LiveImageMissing(args) == ~args.live_image

do_live_image_start(args) ==
    IF LiveImageMissing(args) THEN {Raise("CommandError")}
    ELSE Bind(FindServer,
              [server \in Values |->
                  IF StartChecks(args) # "none" THEN {Raise(StartChecks(args))}
                  ELSE Bind(start_live_image(server[1]), PrintAll)])

do_live_image_create(args) ==
    Bind(FindServer,
         [server \in Values |-> Bind(create_live_image(server[1]), PrintAll)])

do_live_image_delete(args) ==
    Bind(FindServer, [server \in Values |-> delete_live_image(server[1])])

do_cobalt_migrate(args) ==
    Bind(FindServer, [server \in Values |-> migrate(server[1])])

do_live_image_servers(args) ==
    Bind(FindServer, [server \in Values |-> list_live_image_servers(server[1])])

do_live_image_list(args) ==
    Bind(FindServer, [server \in Values |-> list_live_images(server[1])])

\* the export is written to args.output after the action
do_live_image_export(args) ==
    Bind(FindServer,
         [server \in Values |->
             Then(export(server[1]),
                  IF args.file = "unreadable" THEN {Raise("IOError")}
                  ELSE {Done(<< >>, << >>)})])

\* the data file is read and the overrides applied before the request
do_live_image_import(args) ==
    IF args.file = "unreadable" THEN {Raise("IOError")}
    ELSE IF args.override = "KeyError" THEN {Raise("KeyError")}
    ELSE Bind(import_instance, PrintAll)

do_install_policy(args) ==
    IF args.file = "unreadable" THEN {Raise("IOError")}
    ELSE install_policy

do_get_policy(args) ==
    Bind(FindServer, [server \in Values |-> get_policy(server[1])])

do_cobalt_install_agent(args) ==
    Bind(FindServer, [server \in Values |-> install_agent])

(***************************************************************************)
(* Spec: one handler invocation after another on one client                *)
(***************************************************************************)
Idle == command.handler = "none"

\* the handler named h runs to its end in one of its runs
Invoke(h, args, runs) ==
    /\ \E run \in runs :
        /\ command' = [args EXCEPT !.handler = h]
        /\ requests' = run.reqs
        /\ outcome' = [raised |-> run.raised, by |-> run.by]
    /\ UNCHANGED <<varsCaps, varsPure>>

StartArgs ==
    [handler : {"none"}, live_image : BOOLEAN, nics : CmdNics,
     file : {"none", "readable", "unreadable"}, num_instances : {"1", "many"},
     override : {"none"}]

FileArgs ==
    [handler : {"none"}, live_image : {FALSE}, nics : {<< >>},
     file : {"readable", "unreadable"}, num_instances : {"1"},
     override : {"none"}]

ImportArgs ==
    [handler : {"none"}, live_image : {FALSE}, nics : {<< >>},
     file : {"readable", "unreadable"}, num_instances : {"1"},
     override : {"none", "applied", "KeyError"}]

DoLiveImageStart ==
    /\ Idle
    /\ \E args \in StartArgs :
          Invoke("do_live_image_start", args, do_live_image_start(args))

DoLiveImageCreate ==
    /\ Idle
    /\ Invoke("do_live_image_create", NoCommand, do_live_image_create(NoCommand))

DoLiveImageDelete ==
    /\ Idle
    /\ Invoke("do_live_image_delete", NoCommand, do_live_image_delete(NoCommand))

DoCobaltMigrate ==
    /\ Idle
    /\ Invoke("do_cobalt_migrate", NoCommand, do_cobalt_migrate(NoCommand))

DoLiveImageServers ==
    /\ Idle
    /\ Invoke("do_live_image_servers", NoCommand, do_live_image_servers(NoCommand))

DoLiveImageList ==
    /\ Idle
    /\ Invoke("do_live_image_list", NoCommand, do_live_image_list(NoCommand))

DoLiveImageExport ==
    /\ Idle
    /\ \E args \in FileArgs :
          Invoke("do_live_image_export", args, do_live_image_export(args))

DoLiveImageImport ==
    /\ Idle
    /\ \E args \in ImportArgs :
          Invoke("do_live_image_import", args, do_live_image_import(args))

DoInstallPolicy ==
    /\ Idle
    /\ \E args \in FileArgs :
          Invoke("do_install_policy", args, do_install_policy(args))

DoGetPolicy ==
    /\ Idle
    /\ Invoke("do_get_policy", NoCommand, do_get_policy(NoCommand))

DoCobaltInstallAgent ==
    /\ Idle
    /\ Invoke("do_cobalt_install_agent", NoCommand, do_cobalt_install_agent(NoCommand))

DoCobaltCapabilities ==
    /\ Idle
    /\ do_cobalt_capabilities
    /\ command' = [NoCommand EXCEPT !.handler = "do_cobalt_capabilities"]
    /\ outcome' = [raised |-> cap_call'.raised,
                   by |-> IF cap_call'.raised = "none" THEN 0 ELSE 1]
    /\ UNCHANGED varsPure

\* the shell is run again: the next subcommand starts with nothing sent
NextCommand ==
    /\ ~Idle
    /\ command' = NoCommand
    /\ requests' = << >>
    /\ outcome' = NoOutcome
    /\ UNCHANGED <<varsCaps, varsPure>>

Init ==
    /\ CapsInit({{"user-data", "launch-nics"}})
    /\ arg_nics = << >>
    /\ nics_result = NotCalled
    /\ requests = << >>
    /\ command = NoCommand
    /\ outcome = NoOutcome
    /\ IdleLaunch
    /\ IdleRest

Next ==
    \/ DoLiveImageStart
    \/ DoLiveImageCreate
    \/ DoLiveImageDelete
    \/ DoCobaltMigrate
    \/ DoLiveImageServers
    \/ DoLiveImageList
    \/ DoLiveImageExport
    \/ DoLiveImageImport
    \/ DoInstallPolicy
    \/ DoGetPolicy
    \/ DoCobaltInstallAgent
    \/ DoCobaltCapabilities
    \/ NextCommand

Spec == Init /\ [][Next]_vars

(***************************************************************************)
(* SpecLaunch: start_live_image called once, on every argument tried       *)
(***************************************************************************)
InitLaunch ==
    /\ launch_args \in
          LaunchArgs(Names, {None, Some(<<"host">>)}, UserDatas,
                     {None, Some(<< >>)})
          \cup LaunchArgs({Some(<<"vm">>)}, {None},
                          {UserData("None", << >>), UserData("str", <<77>>)},
                          NetworkLists)
    /\ launch_called = FALSE
    /\ launch_params = << >>
    /\ IdleCaps
    /\ arg_nics = << >>
    /\ nics_result = NotCalled
    /\ requests = << >>
    /\ command = NoCommand
    /\ outcome = NoOutcome
    /\ IdleRest

\* cs.cobalt.start_live_image(server, **launch_args) builds its params
StartLiveImageCall ==
    /\ ~launch_called
    /\ launch_called' = TRUE
    /\ launch_params' = StartLiveImageParams(launch_args)
    /\ UNCHANGED <<launch_args, varsNics, varsCaps, requests, varsCmd, varsRest>>

NextLaunch == StartLiveImageCall

SpecLaunch == InitLaunch /\ [][NextLaunch]_vars

(***************************************************************************)
(* Python values held in dictionaries: a string, a list of strings or a    *)
(* dictionary (a function from keys, themselves strings, to values)        *)
(***************************************************************************)
Str(s) == [kind |-> "str", str |-> s]

List(l) == [kind |-> "list", list |-> l]

Dict(d) == [kind |-> "dict", dict |-> d]

\* s.partition(sep): what precedes the first sep, the sep found, what follows
Partition(s, sep) ==
    LET i == IndexOf(s, sep)
    IN  IF i = 0 THEN <<s, << >>, << >>>>
        ELSE <<SubSeq(s, 1, i - 1), <<sep>>, SubSeq(s, i + 1, Len(s))>>

(***************************************************************************)
(* do_live_image_start: the scheduler hints                                *)
(***************************************************************************)
\* HintAdd, wrongly: a key given again keeps its latest value only
HintAddKeepLast(scheduler_hints, hint) ==
    LET key == Partition(hint, "=")[1]
        value == Partition(hint, "=")[3]
    IN  (key :> Str(value)) @@ scheduler_hints

\* one turn of the loop over args._scheduler_hints
HintAdd(scheduler_hints, hint) ==
    LET key == Partition(hint, "=")[1]
        value == Partition(hint, "=")[3]
    IN  IF key \in DOMAIN scheduler_hints
        THEN LET listed == IF scheduler_hints[key].kind = "str"
                           THEN <<scheduler_hints[key].str>>
                           ELSE scheduler_hints[key].list
             IN  [scheduler_hints EXCEPT ![key] = List(listed \o <<value>>)]
        ELSE (key :> Str(value)) @@ scheduler_hints

RECURSIVE HintLoop(_, _, _)
HintLoop(hints, i, scheduler_hints) ==
    IF i > Len(hints) THEN scheduler_hints
    ELSE HintLoop(hints, i + 1, HintAdd(scheduler_hints, hints[i]))

\* scheduler_hints = {}; if args._scheduler_hints: for hint in ...
SchedulerHints(hints) ==
    IF hints = << >> THEN << >> ELSE HintLoop(hints, 1, << >>)

\* the --hint values tried: two keys, each bare, with an empty value, with
\* a value and with a value that holds "=", and a hint whose key is empty
HintStrings ==
    {k \o t : k \in {<<"k1">>, <<"k2">>},
              t \in {<< >>, <<"=">>, <<"=", "v">>, <<"=", "w">>,
                     <<"=", "v", "=", "w">>}}
    \cup {<<"=", "v">>}

(***************************************************************************)
(* SpecHints: the hint loop on every list of at most MaxHints hints        *)
(***************************************************************************)
\* the state of the specifications above
varsOld == <<varsNics, varsCaps, requests, varsCmd, varsLaunch>>

IdleOld ==
    /\ arg_nics = << >>
    /\ nics_result = NotCalled
    /\ IdleCaps
    /\ requests = << >>
    /\ command = NoCommand
    /\ outcome = NoOutcome
    /\ IdleLaunch

InitHints ==
    /\ IdleHints
    /\ IdleOld
    /\ IdleImport
    /\ IdleAlias
    /\ IdleClient

\* the argument parser appends one more --hint value (action='append')
AddHint ==
    /\ ~hints_result.done
    /\ Len(arg_hints) < MaxHints
    /\ \E h \in HintStrings : arg_hints' = Append(arg_hints, h)
    /\ UNCHANGED <<hints_result, varsOld, varsImport, varsAlias, varsClient>>

PartitionHints ==
    /\ ~hints_result.done
    /\ hints_result' = [done |-> TRUE, hints |-> SchedulerHints(arg_hints)]
    /\ UNCHANGED <<arg_hints, varsOld, varsImport, varsAlias, varsClient>>

NextHints == AddHint \/ PartitionHints

SpecHints == InitHints /\ [][NextHints]_vars

(***************************************************************************)
(* do_live_image_import: the overrides.  A key or an override string holds *)
(* the further separator tokens "." and ";".                               *)
(***************************************************************************)
\* what data[key] raises: a dictionary lacks the key, a string or a list
\* takes no string index
SubscriptError(data, key) ==
    IF data.kind # "dict" THEN "TypeError"
    ELSE IF key \notin DOMAIN data.dict THEN "KeyError"
    ELSE "none"

\* Overridden, wrongly: the value is never split
OverriddenPlain(existing, value) == Str(value)

\* if isinstance(data[key], list): value = value.split(',')
Overridden(existing, value) ==
    IF existing.kind = "list" THEN List(Split(value, ",")) ELSE Str(value)

\* override(key, value, data): the exception raised and data afterwards
RECURSIVE override(_, _, _)
override(key, value, data) ==
    IF IndexOf(key, ".") # 0
    THEN LET parent == Partition(key, ".")[1]
             rest == Partition(key, ".")[3]
         IN  IF SubscriptError(data, parent) # "none"
             THEN [raised |-> SubscriptError(data, parent), data |-> data]
             ELSE LET inner == override(rest, value, data.dict[parent])
                  IN  [raised |-> inner.raised,
                       data |-> Dict([data.dict EXCEPT ![parent] = inner.data])]
    ELSE IF SubscriptError(data, key) # "none"
         THEN [raised |-> SubscriptError(data, key), data |-> data]
         ELSE [raised |-> "none",
               data |-> Dict([data.dict EXCEPT
                                 ![key] = Overridden(data.dict[key], value)])]

\* for override_arg in args.override.split(';'): key, value = ...split('=', 1)
RECURSIVE OverrideLoop(_, _, _)
OverrideLoop(override_args, i, data) ==
    IF i > Len(override_args) THEN [raised |-> "none", data |-> data]
    ELSE LET kv == Split1(override_args[i], "=")
         IN  IF Len(kv) # 2 THEN [raised |-> "ValueError", data |-> data]
             ELSE LET done == override(kv[1], kv[2], data)
                  IN  IF done.raised # "none" THEN done
                      ELSE OverrideLoop(override_args, i + 1, done.data)

\* the body of do_live_image_import from json.load to import_instance(data)
ImportData(data, override_opt) ==
    LET merged == IF override_opt.none THEN [raised |-> "none", data |-> data]
                  ELSE OverrideLoop(Split(override_opt.v, ";"), 1, data)
    IN  [done |-> TRUE, raised |-> merged.raised,
         imported |-> merged.raised = "none", data |-> merged.data]

\* the documents tried: one with strings, lists and dictionaries down to
\* depth three, one with the same keys holding the other kinds
Documents ==
    {Dict((<<"id">> :> Str(<<"img">>))
          @@ (<<"groups">> :> List(<<<<"sg0">>>>))
          @@ (<<"fields">> :>
                 Dict((<<"name">> :> Str(<<"n">>))
                      @@ (<<"tags">> :> List(<<<<"t">>>>))
                      @@ (<<"meta">> :> Dict(<<"a">> :> Str(<<"x">>)))))),
     Dict((<<"id">> :> List(<<<<"img">>>>))
          @@ (<<"groups">> :> Str(<<"sg0">>))
          @@ (<<"fields">> :> Str(<<"flat">>)))}

\* the elements of --override tried
OverrideArgs ==
    {<<"id", "=", "new">>,
     <<"id", "=", "a", ",", "b">>,
     <<"groups", "=", "sg1", ",", "sg2">>,
     <<"groups", "=">>,
     <<"fields", ".", "name", "=", "foo">>,
     <<"fields", ".", "name", "=", "a", "=", "b">>,
     <<"fields", ".", "tags", "=", "t1", ",", "t2">>,
     <<"fields", ".", "meta", ".", "a", "=", "y">>,
     <<"fields", "=", "flat">>,
     <<"missing", "=", "x">>,
     <<"fields", ".", "missing", "=", "x">>,
     <<"missing", ".", "name", "=", "x">>,
     <<"id", ".", "x", "=", "y">>,
     <<"id">>,
     << >>}

(***************************************************************************)
(* SpecImport: the merge on every document and every --override of at most *)
(* MaxOverrides elements                                                   *)
(***************************************************************************)
InitImport ==
    /\ import_data \in Documents
    /\ import_override = None
    /\ import_result = NoImport
    /\ IdleOld
    /\ IdleHints
    /\ IdleAlias
    /\ IdleClient

\* one more element on the --override string
AddOverride ==
    /\ ~import_result.done
    /\ \E e \in OverrideArgs :
          \/ /\ import_override.none
             /\ import_override' = Some(e)
          \/ /\ ~import_override.none
             /\ Len(Split(import_override.v, ";")) < MaxOverrides
             /\ import_override' = Some(import_override.v \o <<";">> \o e)
    /\ UNCHANGED <<import_data, import_result, varsOld, varsHints, varsAlias, varsClient>>

LiveImageImport ==
    /\ ~import_result.done
    /\ import_result' = ImportData(import_data, import_override)
    /\ UNCHANGED <<import_data, import_override, varsOld, varsHints, varsAlias, varsClient>>

NextImport == AddOverride \/ LiveImageImport

SpecImport == InitImport /\ [][NextImport]_vars

(***************************************************************************)
(* The deprecated aliases.  A result is the run a call took and the params *)
(* it handed to its action.  A call c names the receiver (the shell        *)
(* module, the manager or a server object), the function or method and its *)
(* arguments.                                                              *)
(***************************************************************************)
Sends(params, runs) == {[params |-> params, run |-> r] : r \in runs}

\* a function without a return statement returns None
ReturnNone(results) ==
    {[r EXCEPT !.run.value = IF r.run.raised = "none" THEN <<"None">> ELSE @] :
        r \in results}

\* do_launch_args, wrongly: args.nics is left as given
do_launch_args_kept(c) == c

\* do_launch: args.nics = []
do_launch_args(c) == [c EXCEPT !.args.nics = << >>]

\* the do_* functions of the module; do_live_image_start hands the parsed
\* nics to start_live_image as networks once it gets there
RECURSIVE ShellCall(_, _)
ShellCall(name, c) ==
    ReturnNone(
        CASE name = "do_launch" -> ShellCall("do_live_image_start", do_launch_args(c))
          [] name = "do_bless" -> ShellCall("do_live_image_create", c)
          [] name = "do_discard" -> ShellCall("do_live_image_delete", c)
          [] name = "do_gc_migrate" -> ShellCall("do_cobalt_migrate", c)
          [] name = "do_list_launched" -> ShellCall("do_live_image_servers", c)
          [] name = "do_list_blessed" -> ShellCall("do_live_image_list", c)
          [] name = "do_gc_install_agent" -> ShellCall("do_cobalt_install_agent", c)
          [] name = "do_live_image_start" ->
                {[params |->
                     IF \E i \in 1..Len(r.reqs) : r.reqs[i].name = "gc_launch"
                     THEN NetworksParam(Some(parse_nics_arg(c.args.nics).value))
                     ELSE << >>,
                  run |-> r] : r \in do_live_image_start(c.args)}
          [] name = "do_live_image_create" -> Sends(<< >>, do_live_image_create(c.args))
          [] name = "do_live_image_delete" -> Sends(<< >>, do_live_image_delete(c.args))
          [] name = "do_cobalt_migrate" -> Sends(<< >>, do_cobalt_migrate(c.args))
          [] name = "do_live_image_servers" -> Sends(<< >>, do_live_image_servers(c.args))
          [] name = "do_live_image_list" -> Sends(<< >>, do_live_image_list(c.args))
          [] name = "do_cobalt_install_agent" ->
                Sends(<< >>, do_cobalt_install_agent(c.args)))

\* the methods of CoServerManager: each deprecated one returns what the
\* method it names returns on the same arguments
RECURSIVE ManagerCall(_, _)
ManagerCall(name, c) ==
    CASE name = "launch" -> ManagerCall("start_live_image", c)
      [] name = "bless" -> ManagerCall("create_live_image", c)
      [] name = "discard" -> ManagerCall("delete_live_image", c)
      [] name = "list_launched" -> ManagerCall("list_live_image_servers", c)
      [] name = "list_blessed" -> ManagerCall("list_live_images", c)
      [] name = "start_live_image" ->
            Sends(StartLiveImageParams(c.kwargs), start_live_image(c.server))
      [] name = "create_live_image" ->
            Sends("name" :> c.kwargs.name, create_live_image(c.server))
      [] name = "delete_live_image" -> Sends(<< >>, delete_live_image(c.server))
      [] name = "list_live_image_servers" ->
            Sends(<< >>, list_live_image_servers(c.server))
      [] name = "list_live_images" -> Sends(<< >>, list_live_images(c.server))

\* CoServer.start_live_image hands each keyword on under its name
KeywordsPassed(kwargs) ==
    [target |-> kwargs.target, name |-> kwargs.name,
     user_data |-> kwargs.user_data, guest |-> kwargs.guest,
     security_groups |-> kwargs.security_groups,
     availability_zone |-> kwargs.availability_zone,
     num_instances |-> kwargs.num_instances, key_name |-> kwargs.key_name,
     scheduler_hints |-> kwargs.scheduler_hints, networks |-> kwargs.networks]

\* the methods of CoServer; discard and delete_live_image have no return
\* statement; a name the class does not define loads the resource if it was
\* not loaded yet and raises AttributeError
RECURSIVE ServerCall(_, _)
ServerCall(name, c) ==
    CASE name = "launch" -> ServerCall("start_live_image", c)
      [] name = "start_live_image" ->
            ManagerCall("launch", [c EXCEPT !.kwargs = KeywordsPassed(c.kwargs)])
      [] name = "bless" -> ServerCall("create_live_image", c)
      [] name = "create_live_image" -> ManagerCall("bless", c)
      [] name = "discard" -> ReturnNone(ServerCall("delete_live_image", c))
      [] name = "delete_live_image" -> ReturnNone(ManagerCall("discard", c))
      [] name = "list_launched" -> ServerCall("list_servers", c)
      [] name = "list_servers" -> ManagerCall("list_launched", c)
      [] name = "list_blessed" -> ServerCall("list_live_images", c)
      [] name = "list_live_images" -> ManagerCall("list_blessed", c)
      [] OTHER ->
            Sends(<< >>, Then({Done(<< >>, << >>)} \cup Get(c.server),
                              {Raise("AttributeError")}))

Call(on, name, c) ==
    IF on = "shell" THEN ShellCall(name, c)
    ELSE IF on = "manager" THEN ManagerCall(name, c)
    ELSE ServerCall(name, c)

(***************************************************************************)
(* SpecAlias: one call of a deprecated alias                               *)
(***************************************************************************)
InitAlias ==
    /\ IdleAlias
    /\ IdleOld
    /\ IdleHints
    /\ IdleImport
    /\ IdleClient

\* the calls tried: every deprecated subcommand (do_launch on argument lists
\* of do_live_image_start with and without nics), every deprecated method on
\* every server and a choice of keyword arguments
AliasCalls(on) ==
    IF on = "shell"
    THEN {[NoAliasCall EXCEPT !.on = on, !.name = "do_launch", !.args = args] :
             args \in {a \in StartArgs : /\ a.nics \in {<< >>, <<BadNic>>}
                                         /\ a.file # "readable"}}
         \cup {[NoAliasCall EXCEPT !.on = on, !.name = name] :
                  name \in {"do_bless", "do_discard", "do_gc_migrate",
                            "do_list_launched", "do_list_blessed",
                            "do_gc_install_agent"}}
    ELSE {[NoAliasCall EXCEPT !.on = on, !.name = name, !.server = server,
                              !.kwargs = kwargs] :
             name \in {"launch", "bless", "discard", "list_launched", "list_blessed"},
             server \in ServerIds,
             kwargs \in LaunchArgs({None, Some(<<"vm">>)}, {Some(<<"host">>)},
                                   {UserData("str", <<77>>)},
                                   {None, Some(<<[k \in {"net-id"} |-> <<"u">>]>>)})}

\* a deprecated subcommand is run
ShellAlias ==
    /\ alias_call.on = "none"
    /\ \E c \in AliasCalls("shell") :
          /\ alias_call' = c
          /\ alias_result' \in Call(c.on, c.name, c)
    /\ UNCHANGED <<varsOld, varsHints, varsImport, varsClient>>

\* a deprecated method of the manager is called
ManagerAlias ==
    /\ alias_call.on = "none"
    /\ \E c \in AliasCalls("manager") :
          /\ alias_call' = c
          /\ alias_result' \in Call(c.on, c.name, c)
    /\ UNCHANGED <<varsOld, varsHints, varsImport, varsClient>>

\* a deprecated method of a server is called
ServerAlias ==
    /\ alias_call.on = "none"
    /\ \E c \in AliasCalls("server") :
          /\ alias_call' = c
          /\ alias_result' \in Call(c.on, c.name, c)
    /\ UNCHANGED <<varsOld, varsHints, varsImport, varsClient>>

NextAlias == ShellAlias \/ ManagerAlias \/ ServerAlias

SpecAlias == InitAlias /\ [][NextAlias]_vars

(***************************************************************************)
(* CoServerManager.__init__: the attachment to the client                  *)
(***************************************************************************)
\* Attach, wrongly: the attribute is set whether or not the client has it
AttachAlways(attr, self) == self

\* if not(hasattr(client, name)): setattr(client, name, self)
Attach(attr, self) == IF attr.kind = "absent" THEN self ELSE attr

(***************************************************************************)
(* SpecClient: managers constructed one after another on clients that may  *)
(* hold either attribute already                                           *)
(***************************************************************************)
InitClient ==
    /\ client_before \in
          [cobalt : [Clients -> {Attribute("absent", 0), Attribute("other", 0)}],
           gridcentric : [Clients -> {Attribute("absent", 0), Attribute("other", 0)}]]
    /\ client_cobalt = client_before.cobalt
    /\ client_gridcentric = client_before.gridcentric
    /\ managers = << >>
    /\ IdleOld
    /\ IdleHints
    /\ IdleImport
    /\ IdleAlias

\* CoServerManager(client)
Construct ==
    /\ Len(managers) < MaxManagers
    /\ \E client \in Clients :
          LET self == Attribute("manager", Len(managers) + 1)
          IN  /\ managers' = Append(managers, client)
              /\ client_cobalt' =
                    [client_cobalt EXCEPT ![client] = Attach(@, self)]
              /\ client_gridcentric' =
                    [client_gridcentric EXCEPT ![client] = Attach(@, self)]
    /\ UNCHANGED <<client_before, varsOld, varsHints, varsImport, varsAlias>>

NextClient == Construct

SpecClient == InitClient /\ [][NextClient]_vars

(***************************************************************************)
(* What a list of pieces asks for, read off the pieces themselves          *)
(***************************************************************************)
Max(S) == CHOOSE x \in S : \A y \in S : y <= x

\* the value the pieces give key: that of the last piece naming it, else ""
GivenValue(ps, key) ==
    LET at == {i \in 1..Len(ps) : ps[i].eq /\ ps[i].k = <<key>>}
    IN  IF at = {} THEN EmptyStr ELSE ps[Max(at)].v

\* every piece is key=value with a key of NicKeys, and net-id or port-id
\* ends up non-empty
WellFormedNic(ps) ==
    /\ \A i \in 1..Len(ps) : ps[i].eq /\ \E key \in NicKeys : ps[i].k = <<key>>
    /\ GivenValue(ps, "net-id") # EmptyStr \/ GivenValue(ps, "port-id") # EmptyStr

StructsOf(nic_str) == {ps \in NicStructs : RenderNic(ps) = nic_str}

NicsCalled == nics_result # NotCalled

\* C1: parse_nics_arg accepts every list of well-formed nic strings and
\* returns one dictionary per string, in input order, holding exactly the
\* keys net-id, v4-fixed-ip and port-id, each with the value given last for
\* it, or the empty string when the key was not given.
C1_ParseNicsAccepts ==
    (/\ NicsCalled
     /\ \A i \in 1..Len(arg_nics) : \E ps \in StructsOf(arg_nics[i]) : WellFormedNic(ps))
    => /\ nics_result.returned
       /\ nics_result.raised = "none"
       /\ Len(nics_result.value) = Len(arg_nics)
       /\ \A i \in 1..Len(arg_nics) : \A ps \in StructsOf(arg_nics[i]) :
             /\ DOMAIN nics_result.value[i] = NicKeys
             /\ \A key \in NicKeys : nics_result.value[i][key] = GivenValue(ps, key)

\* a call on two different well-formed strings, the first repeating net-id
C1_Witness ==
    /\ NicsCalled
    /\ Len(arg_nics) = 2
    /\ arg_nics[1] = <<"net-id", "=", "u", ",", "net-id", "=", "w">>
    /\ arg_nics[2] = <<"net-id", "=", "u", ",", "v4-fixed-ip", "=", "a", ",",
                       "port-id", "=", "w">>
    /\ nics_result.returned
    /\ nics_result.value[1]["net-id"] = <<"w">>
    /\ nics_result.value[2]["v4-fixed-ip"] = <<"a">>

\* C2: parse_nics_arg raises CommandError, and returns nothing, whenever any
\* one nic string lacks both a non-empty net-id and a non-empty port-id, has
\* a piece without "=", or uses a key outside NicKeys, whatever the other
\* strings of the list are.
C2_ParseNicsRejects ==
    (/\ NicsCalled
     /\ \E i \in 1..Len(arg_nics) : \E ps \in StructsOf(arg_nics[i]) : ~WellFormedNic(ps))
    => /\ ~nics_result.returned
       /\ nics_result.raised = "CommandError"
       /\ nics_result.value = << >>

\* a well-formed string followed by one with an unknown key: the call raises
C2_Witness ==
    /\ NicsCalled
    /\ Len(arg_nics) = 2
    /\ arg_nics[1] = <<"port-id", "=", "u">>
    /\ arg_nics[2] = <<"net-id", "=", "u", ",", "bogus", "=", "w">>
    /\ nics_result.raised = "CommandError"

(***************************************************************************)
(* Capability negotiation and the capability cache                         *)
(***************************************************************************)
\* the capabilities whose every dependency is in the list L
Supported(L) ==
    {c \in CapabilityNames : \A i \in DOMAIN CAPABILITIES[c] : CAPABILITIES[c][i] \in L}

\* C3: after setup_capabilities the capability set is exactly the keys of
\* CAPABILITIES whose every dependency the server reported, and satisfies(R)
\* is true exactly when every element of R is in that set: true for the
\* empty R, false for an R holding a name that is no CAPABILITIES key.
C3_Negotiation ==
    /\ capabilities.has => capabilities.caps = Supported(reported)
    /\ (cap_call.op = "satisfies" /\ cap_call.raised = "none") =>
          /\ capabilities.has
          /\ cap_call.value = (\A r \in cap_call.requirements : r \in capabilities.caps)
          /\ cap_call.requirements = {} => cap_call.value
          /\ (\E r \in cap_call.requirements : r \notin CapabilityNames)
                => ~cap_call.value

\* the server reported two capabilities, one of them no CAPABILITIES key, and
\* a satisfies call on a reported and an unreported capability was answered
C3_Witness ==
    /\ capabilities.has
    /\ reported = {"user-data", "other-cap"}
    /\ capabilities.caps = {"user-data"}
    /\ cap_call.op = "satisfies"
    /\ cap_call.requirements = {"user-data", "launch-nics"}
    /\ cap_call.value = FALSE

\* C4 (state part): at most one GET /gcinfo is ever answered; while none is,
\* nothing is cached and every call so far sent one; once one is, the calls
\* after it send nothing and answer from the list that request carried.
C4_CacheState ==
    /\ capabilities.has <=> gcinfo_sent = gcinfo_failed + 1
    /\ ~capabilities.has <=> gcinfo_sent = gcinfo_failed
    /\ ~capabilities.has => gcinfo_sent = cap_calls /\ capabilities.caps = {}
    /\ (cap_calls >= 1 /\ gcinfo_failed = 0) => gcinfo_sent = 1
    /\ cap_calls > gcinfo_failed + 1 => requests = << >>
    /\ (cap_call.op = "satisfies" /\ cap_call.raised = "none") =>
          cap_call.value = (cap_call.requirements \subseteq Supported(reported))
    /\ (cap_call.op = "cobalt-capabilities" /\ ~cap_call.all /\ cap_call.raised = "none")
          => cap_call.printed = Supported(reported)
    /\ cap_call.raised # "none" =>
          /\ ~capabilities.has
          /\ requests = <<GcInfo(cap_call.raised)>>

\* C4: over any sequence of satisfies and cobalt-capabilities (no --all)
\* calls on one manager, GET /gcinfo is requested exactly once, by the first
\* call, if that request is answered; later calls answer from the cache with
\* no request even when the server's list has changed; a failed request
\* caches nothing, so the next call requests again.
C4_CapabilityCache ==
    /\ []C4_CacheState
    /\ [][capabilities.has =>
            /\ gcinfo_sent' = gcinfo_sent
            /\ capabilities' = capabilities
            /\ reported' = reported]_vars
    /\ [][(~capabilities.has /\ cap_calls' = cap_calls + 1) =>
            /\ gcinfo_sent' = gcinfo_sent + 1
            /\ Len(requests') = 1]_vars

\* three calls, one request: the last call answered from the cached list
\* although the server no longer reports what it reported
C4_Witness ==
    /\ capabilities.has
    /\ cap_calls = 3
    /\ gcinfo_sent = 1
    /\ reported = {"user-data"}
    /\ api_caps = {}
    /\ cap_call.op = "satisfies"
    /\ cap_call.requirements = {"user-data"}
    /\ cap_call.value = TRUE
    /\ requests = << >>

(***************************************************************************)
(* The handlers and the requests they send                                 *)
(***************************************************************************)
Invoked == command.handler # "none"

\* the positions in requests of the requests of the given kinds
Positions(kinds) == {i \in 1..Len(requests) : requests[i].kind \in kinds}

LookupSucceeded ==
    /\ Len(requests) >= 1
    /\ requests[1].kind = "find"
    /\ requests[1].error = "none"

NicsMalformed == \E i \in 1..Len(command.nics) : command.nics[i] = BadNic

\* the arguments pass every check a handler makes before its action
ArgsValid ==
    command.handler = "do_live_image_start" =>
        /\ command.live_image
        /\ ~NicsMalformed
        /\ command.file # "unreadable"
        /\ command.num_instances = "1"

ActionOf ==
    [h \in {"do_live_image_start", "do_live_image_create", "do_live_image_delete",
            "do_cobalt_migrate", "do_live_image_servers", "do_live_image_list",
            "do_live_image_export", "do_get_policy"} |->
        CASE h = "do_live_image_start" -> "gc_launch"
          [] h = "do_live_image_create" -> "gc_bless"
          [] h = "do_live_image_delete" -> "gc_discard"
          [] h = "do_cobalt_migrate" -> "gc_migrate"
          [] h = "do_live_image_servers" -> "gc_list_launched"
          [] h = "do_live_image_list" -> "gc_list_blessed"
          [] h = "do_live_image_export" -> "gc_export"
          [] h = "do_get_policy" -> "co_get_policy"]

\* C5: each of the eight handlers, its arguments valid and its server
\* lookup answered, issues its named action exactly once, against the id of
\* the server looked up, and issues no other named action.
C5_NamedActionOnce ==
    (/\ command.handler \in DOMAIN ActionOf
     /\ ArgsValid
     /\ LookupSucceeded)
    => /\ Cardinality(Positions({"action"})) = 1
       /\ \A i \in Positions({"action"}) :
             /\ requests[i].name = ActionOf[command.handler]
             /\ requests[i].id = requests[1].id

\* live-image-start on server s2 with a --nic went through: lookup, gc_launch
\* and the GET of the server it returned
C5_Witness ==
    /\ command.handler = "do_live_image_start"
    /\ command.nics = <<ValidNic>>
    /\ outcome.raised = "none"
    /\ Len(requests) >= 3
    /\ requests[1].id = "s2"
    /\ requests[2] = Req("action", "gc_launch", "s2", "none")
    /\ requests[3].kind = "get"

\* the call a subcommand maps onto: a named action or a dedicated endpoint
PrimaryKinds == {"action", "POST", "GET"}

PrimaryOf(h) ==
    CASE h \in DOMAIN ActionOf -> <<"action", ActionOf[h]>>
      [] h = "do_live_image_import" -> <<"POST", "/gc-import-server">>
      [] h = "do_install_policy" -> <<"POST", "/gcpolicy">>
      [] h = "do_cobalt_capabilities" -> <<"GET", "/gcinfo">>
      [] OTHER -> <<"none", "none">>

LookupFirst ==
    command.handler \in DOMAIN ActionOf \cup {"do_cobalt_install_agent"}

\* C6 as claimed: one handler invocation sends exactly one request.
C6_Original == Invoked => Len(requests) = 1

\* C6, amended: an invocation sends at most one primary call (the named
\* action or the /gcinfo, /gcpolicy or /gc-import-server request of its
\* subcommand), and exactly one when it ends without an exception, save for
\* cobalt-capabilities and cobalt-install-agent; every other request is a
\* lookup: the server lookup before the call, and after it the GETs of the
\* returned ids and the server, flavor and image lookups for display.
C6_OnePrimaryCall ==
    Invoked =>
       /\ Cardinality(Positions(PrimaryKinds)) <= 1
       /\ \A i \in Positions(PrimaryKinds) :
             /\ <<requests[i].kind, requests[i].name>> = PrimaryOf(command.handler)
             /\ i = IF LookupFirst THEN 2 ELSE 1
             /\ \A j \in 1..(i - 1) : requests[j].kind = "find"
             /\ \A j \in (i + 1)..Len(requests) :
                   requests[j].kind \in {"get", "find", "flavor", "image"}
       /\ (/\ outcome.raised = "none"
           /\ command.handler \notin {"do_cobalt_capabilities", "do_cobalt_install_agent"})
             => Cardinality(Positions(PrimaryKinds)) = 1
       /\ Positions(PrimaryKinds) = {} =>
             \A j \in 1..Len(requests) : requests[j].kind = "find" /\ j = 1

\* live-image-create sent five requests: lookup, gc_bless, the GET of the
\* live image and its flavor and image lookups
C6_Witness ==
    /\ command.handler = "do_live_image_create"
    /\ outcome.raised = "none"
    /\ Len(requests) = 5
    /\ requests[2].name = "gc_bless"
    /\ requests[3].kind = "get"
    /\ requests[4].kind = "flavor"
    /\ requests[5].kind = "image"

\* C7 as claimed: with --live-image missing or a --nic malformed,
\* do_live_image_start raises CommandError having sent no request.
C7_Original ==
    (/\ command.handler = "do_live_image_start"
     /\ ~command.live_image \/ NicsMalformed)
    => /\ outcome.raised = "CommandError"
       /\ requests = << >>

\* C7, amended: with --live-image missing the handler raises CommandError
\* having sent nothing; with --live-image given and a --nic malformed it
\* sends the server lookup and nothing else, never gc_launch, and ends with
\* an exception: the lookup's own if the lookup fails, IOError if the
\* --user-data file cannot be opened, and otherwise CommandError.
C7_ValidationOrder ==
    command.handler = "do_live_image_start" =>
       /\ ~command.live_image =>
             /\ outcome = [raised |-> "CommandError", by |-> 0]
             /\ requests = << >>
       /\ (command.live_image /\ NicsMalformed) =>
             /\ Len(requests) = 1
             /\ requests[1].kind = "find"
             /\ outcome.raised # "none"
             /\ requests[1].error # "none" =>
                   outcome = [raised |-> requests[1].error, by |-> 1]
             /\ (requests[1].error = "none" /\ command.file = "unreadable") =>
                   outcome = [raised |-> "IOError", by |-> 0]
             /\ (requests[1].error = "none" /\ command.file # "unreadable") =>
                   outcome = [raised |-> "CommandError", by |-> 0]

\* a malformed second --nic: the live image was looked up, then CommandError
C7_Witness ==
    /\ command.handler = "do_live_image_start"
    /\ command.live_image
    /\ command.nics = <<ValidNic, BadNic>>
    /\ requests = <<Req("find", "servers", "s1", "none")>>
    /\ outcome = [raised |-> "CommandError", by |-> 0]

\* C8 as claimed: every failed request ends the handler with that failure.
C8_Original ==
    Invoked =>
       \A i \in 1..Len(requests) : requests[i].error # "none" =>
          /\ i = Len(requests)
          /\ outcome = [raised |-> requests[i].error, by |-> i]

\* C8, amended: every failed request other than the image lookup of
\* _print_server ends the handler with that failure, nothing sent after it;
\* a failed image lookup is caught (the line shows "Image not found"), is
\* not sent again, and the handler goes on.
C8_FailuresPropagate ==
    Invoked =>
       /\ \A i \in 1..Len(requests) : requests[i].error # "none" =>
             IF requests[i].kind = "image"
             THEN /\ outcome.by # i
                  /\ i < Len(requests) => requests[i + 1].kind # "image"
             ELSE /\ i = Len(requests)
                  /\ outcome = [raised |-> requests[i].error, by |-> i]
       /\ outcome.by # 0 =>
             /\ outcome.by = Len(requests)
             /\ requests[outcome.by].error = outcome.raised
       /\ (outcome.raised = "none" \/ outcome.by = 0) =>
             \A i \in 1..Len(requests) :
                requests[i].error # "none" => requests[i].kind = "image"

\* the flavor lookup of live-image-create failed: the handler ended with it
C8_Witness ==
    /\ command.handler = "do_live_image_create"
    /\ Len(requests) = 4
    /\ requests[3] = Req("get", "servers", "s1", "none")
    /\ requests[4] = Req("flavor", "flavors", "f1", "ClientException")
    /\ outcome = [raised |-> "ClientException", by |-> 4]

(***************************************************************************)
(* The params start_live_image hands to gc_launch                          *)
(***************************************************************************)
\* a well-formed base64 text: whole groups of four, padding only at the end
IsBase64(text) ==
    /\ Len(text) % 4 = 0
    /\ \A i \in 1..Len(text) :
          /\ text[i] \in 0..64
          /\ text[i] = 64 => /\ i >= Len(text) - 1
                             /\ text[Len(text)] = 64

\* the bytes a base64 text stands for
RECURSIVE B64Decode(_)
B64Decode(text) ==
    IF Len(text) < 4 THEN << >>
    ELSE (IF text[3] = 64
          THEN <<(text[1] * 4) + (text[2] \div 16)>>
          ELSE IF text[4] = 64
          THEN <<(text[1] * 4) + (text[2] \div 16),
                 ((text[2] % 16) * 16) + (text[3] \div 4)>>
          ELSE <<(text[1] * 4) + (text[2] \div 16),
                 ((text[2] % 16) * 16) + (text[3] \div 4),
                 ((text[3] % 4) * 64) + text[4]>>)
         \o B64Decode(SubSeq(text, 5, Len(text)))

\* the code points a UTF-8 byte string stands for
RECURSIVE Utf8Decode(_)
Utf8Decode(bytes) ==
    IF bytes = << >> THEN << >>
    ELSE IF bytes[1] < 128
    THEN <<bytes[1]>> \o Utf8Decode(SubSeq(bytes, 2, Len(bytes)))
    ELSE IF bytes[1] < 224
    THEN <<((bytes[1] - 192) * 64) + (bytes[2] - 128)>>
         \o Utf8Decode(SubSeq(bytes, 3, Len(bytes)))
    ELSE IF bytes[1] < 240
    THEN <<((bytes[1] - 224) * 4096) + ((bytes[2] - 128) * 64) + (bytes[3] - 128)>>
         \o Utf8Decode(SubSeq(bytes, 4, Len(bytes)))
    ELSE <<((bytes[1] - 240) * 262144) + ((bytes[2] - 128) * 4096)
           + ((bytes[3] - 128) * 64) + (bytes[4] - 128)>>
         \o Utf8Decode(SubSeq(bytes, 5, Len(bytes)))

AlwaysSent ==
    {"guest", "security_groups", "availability_zone", "scheduler_hints",
     "num_instances", "key_name"}

\* the user_data entry is the base64 text of the content supplied
UserDataEncoded ==
    "user_data" \in DOMAIN launch_params =>
       /\ IsBase64(launch_params["user_data"])
       /\ IF launch_args.user_data.kind = "unicode"
          THEN Utf8Decode(B64Decode(launch_params["user_data"]))
                  = launch_args.user_data.content
          ELSE B64Decode(launch_params["user_data"]) = launch_args.user_data.content

\* the six fixed keys, name when given, never target
OtherParams ==
    /\ \A k \in AlwaysSent : k \in DOMAIN launch_params /\ launch_params[k] = launch_args[k]
    /\ "name" \in DOMAIN launch_params <=> ~launch_args.name.none
    /\ "name" \in DOMAIN launch_params => launch_params["name"] = launch_args.name.v
    /\ "target" \notin DOMAIN launch_params
    /\ DOMAIN launch_params \subseteq AlwaysSent \cup {"name", "user_data", "networks"}

\* C9 as claimed: the user_data entry is there exactly when user data is
\* supplied, that is when user_data is not None.
C9_Original ==
    launch_called =>
       /\ "user_data" \in DOMAIN launch_params <=> launch_args.user_data.kind # "None"
       /\ UserDataEncoded
       /\ OtherParams

\* C9, amended: the user_data entry is there exactly when user_data is a
\* file-like object or a non-empty string (None and the empty string send no
\* user_data key); its value is the base64 text of the content read from the
\* file, of the UTF-8 encoding of the unicode string, or of the byte string;
\* the six fixed keys are always there, name only when given, target never.
C9_UserDataParam ==
    launch_called =>
       /\ "user_data" \in DOMAIN launch_params <=>
             \/ launch_args.user_data.kind = "file"
             \/ /\ launch_args.user_data.kind \in {"unicode", "str"}
                /\ launch_args.user_data.content # << >>
       /\ launch_args.user_data.kind = "None" => "user_data" \notin DOMAIN launch_params
       /\ UserDataEncoded
       /\ OtherParams

\* a unicode string of a two-byte and a three-byte character, with a target
\* and no name: the entry is the base64 text "w6nigqw="
C9_Witness ==
    /\ launch_called
    /\ launch_args.user_data = UserData("unicode", <<233, 8364>>)
    /\ ~launch_args.target.none
    /\ launch_args.name.none
    /\ launch_params["user_data"] = <<48, 58, 39, 34, 32, 42, 48, 64>>
    /\ "name" \notin DOMAIN launch_params

NetKeys == {<<"uuid", "net-id">>, <<"fixed_ip", "v4-fixed-ip">>, <<"port", "port-id">>}

\* C10: the params hold a networks key exactly when the nic list is neither
\* None nor empty; the networks list has one entry per nic, in order, each
\* holding uuid, fixed_ip and port from net-id, v4-fixed-ip and port-id, a
\* key being there only when the nic's value is a non-empty string.
C10_NetworksParam ==
    launch_called =>
       /\ "networks" \in DOMAIN launch_params <=>
             (~launch_args.networks.none /\ launch_args.networks.v # << >>)
       /\ "networks" \in DOMAIN launch_params =>
             /\ Len(launch_params["networks"]) = Len(launch_args.networks.v)
             /\ \A i \in 1..Len(launch_args.networks.v) :
                   LET nic == launch_args.networks.v[i]
                       net == launch_params["networks"][i]
                   IN  /\ DOMAIN net \subseteq {"uuid", "fixed_ip", "port"}
                       /\ \A p \in NetKeys :
                             /\ p[1] \in DOMAIN net <=>
                                   (p[2] \in DOMAIN nic /\ nic[p[2]] # << >>)
                             /\ p[1] \in DOMAIN net => net[p[1]] = nic[p[2]]

\* two nics, the first with an empty fixed ip, the second with a port only
C10_Witness ==
    /\ launch_called
    /\ ~launch_args.networks.none
    /\ Len(launch_args.networks.v) = 2
    /\ launch_args.networks.v[1] = [k \in {"net-id", "v4-fixed-ip"} |->
                                       IF k = "net-id" THEN <<"u">> ELSE << >>]
    /\ launch_args.networks.v[2] = [k \in {"port-id"} |-> <<"u">>]
    /\ "networks" \in DOMAIN launch_params
    /\ DOMAIN launch_params["networks"][1] = {"uuid"}
    /\ DOMAIN launch_params["networks"][2] = {"port"}

(***************************************************************************)
(* The hints, read off the list itself                                     *)
(***************************************************************************)
\* where the first "=" of a hint stands, one past its end when it has none
FirstEq(h) ==
    CHOOSE i \in 1..(Len(h) + 1) :
        /\ i <= Len(h) => h[i] = "="
        /\ \A j \in 1..(i - 1) : h[j] # "="

KeyOfHint(h) == SubSeq(h, 1, FirstEq(h) - 1)

ValueOfHint(h) == SubSeq(h, FirstEq(h) + 1, Len(h))

\* the values given to key k, in the order of the hints
ValuesGiven(hints, k) ==
    LET HasKey(h) == KeyOfHint(h) = k
        given == SelectSeq(hints, HasKey)
    IN  [i \in 1..Len(given) |-> ValueOfHint(given[i])]

\* C11: after the hint loop of do_live_image_start the dictionary holds
\* exactly the keys of the hints, a hint's key being what precedes its first
\* "=" and its value what follows it ("" without "="); a key given once maps
\* to its value, a string, and a key given n >= 2 times maps to the list of
\* its n values in the order the hints were given
C11_HintPartition ==
    hints_result.done =>
        /\ DOMAIN hints_result.hints =
              {KeyOfHint(arg_hints[i]) : i \in 1..Len(arg_hints)}
        /\ \A k \in DOMAIN hints_result.hints :
              LET given == ValuesGiven(arg_hints, k)
              IN  IF Len(given) = 1
                  THEN hints_result.hints[k] = Str(given[1])
                  ELSE hints_result.hints[k] = List(given)

\* a key given three times, once bare and once with "=" in its value, its
\* values not all the same
C11_Witness ==
    /\ hints_result.done
    /\ \E k \in DOMAIN hints_result.hints :
          /\ hints_result.hints[k].kind = "list"
          /\ Len(hints_result.hints[k].list) = 3
          /\ hints_result.hints[k].list[1] # hints_result.hints[k].list[2]
          /\ \E i \in 1..3 : "=" \in {hints_result.hints[k].list[i][j] :
                                        j \in 1..Len(hints_result.hints[k].list[i])}
    /\ \E i \in 1..Len(arg_hints) : IndexOf(arg_hints[i], "=") = 0

(***************************************************************************)
(* The overrides, read off the --override string and the document          *)
(***************************************************************************)
\* the elements of the semicolon-separated list
OverrideElements == Split(import_override.v, ";")

\* every element has the form key=value
KeyValueForm(elements) ==
    \A i \in 1..Len(elements) : FirstEq(elements[i]) <= Len(elements[i])

\* the key path of an element, one key for each dot-separated part
PathOf(e) == Split(SubSeq(e, 1, FirstEq(e) - 1), ".")

ValueOf(e) == SubSeq(e, FirstEq(e) + 1, Len(e))

\* following path from doc leads to an entry
RECURSIVE Reaches(_, _)
Reaches(doc, path) ==
    /\ doc.kind = "dict"
    /\ path[1] \in DOMAIN doc.dict
    /\ Len(path) = 1 \/ Reaches(doc.dict[path[1]], Tail(path))

RECURSIVE EntryAt(_, _)
EntryAt(doc, path) ==
    IF Len(path) = 1 THEN doc.dict[path[1]]
    ELSE EntryAt(doc.dict[path[1]], Tail(path))

\* doc, the entry at path being v
RECURSIVE WithEntry(_, _, _)
WithEntry(doc, path, v) ==
    Dict([doc.dict EXCEPT ![path[1]] =
             IF Len(path) = 1 THEN v ELSE WithEntry(@, Tail(path), v)])

\* every path that leads to an entry of doc
RECURSIVE PathsOf(_)
PathsOf(doc) ==
    IF doc.kind # "dict" THEN {}
    ELSE {<<k>> : k \in DOMAIN doc.dict}
         \cup UNION {{<<k>> \o p : p \in PathsOf(doc.dict[k])} : k \in DOMAIN doc.dict}

IsPrefix(p, q) == Len(p) <= Len(q) /\ SubSeq(q, 1, Len(p)) = p

\* path is named by an element: it leads to, into or above an overridden entry
Named(path, elements) ==
    \E i \in 1..Len(elements) :
        IsPrefix(path, PathOf(elements[i])) \/ IsPrefix(PathOf(elements[i]), path)

\* the document after the elements from the i-th on, ok telling whether every
\* path led to an entry when its turn came
RECURSIVE Merged(_, _, _)
Merged(doc, elements, i) ==
    IF i > Len(elements) THEN [ok |-> TRUE, doc |-> doc]
    ELSE IF ~Reaches(doc, PathOf(elements[i])) THEN [ok |-> FALSE, doc |-> doc]
    ELSE LET path == PathOf(elements[i])
             old == EntryAt(doc, path)
             new == IF old.kind = "list"
                    THEN List(Split(ValueOf(elements[i]), ","))
                    ELSE Str(ValueOf(elements[i]))
         IN  Merged(WithEntry(doc, path, new), elements, i + 1)

\* C12: in do_live_image_import, without --override the document is imported
\* as read; with an --override whose elements all have the form key=value,
\* the elements are applied in order, each replacing the entry its
\* dot-separated key path leads to by the value split on commas when that
\* entry is a list and by the plain string otherwise; entries no path names
\* are unchanged and no entry is created; and when a path leads to no entry
\* the command fails and import_instance is not called
C12_OverrideMerge ==
    import_result.done =>
        /\ import_result.raised # "none" => ~import_result.imported
        /\ import_override.none =>
              import_result.imported /\ import_result.data = import_data
        /\ (~import_override.none /\ KeyValueForm(OverrideElements)) =>
              LET merged == Merged(import_data, OverrideElements, 1)
              IN  /\ import_result.imported = merged.ok
                  /\ ~merged.ok => import_result.raised # "none"
                  /\ merged.ok =>
                        /\ import_result.data = merged.doc
                        /\ PathsOf(import_result.data) \subseteq PathsOf(import_data)
                        /\ \A p \in PathsOf(import_data) :
                              ~Named(p, OverrideElements) =>
                                  /\ Reaches(import_result.data, p)
                                  /\ EntryAt(import_result.data, p)
                                        = EntryAt(import_data, p)

\* two overrides applied and imported: one through a nested path, one that
\* put a list of two in the place of a list
C12_Witness ==
    /\ import_result.done
    /\ import_result.imported
    /\ ~import_override.none
    /\ Len(OverrideElements) = 2
    /\ \E i \in 1..2 : Len(PathOf(OverrideElements[i])) > 1
    /\ \E p \in PathsOf(import_data) :
          /\ EntryAt(import_data, p).kind = "list"
          /\ Reaches(import_result.data, p)
          /\ EntryAt(import_result.data, p).kind = "list"
          /\ Len(EntryAt(import_result.data, p).list) = 2

(***************************************************************************)
(* The aliases and the operations they stand for                           *)
(***************************************************************************)
\* the operation each alias is said to name
NamedOperation(name) ==
    CASE name = "do_launch" -> "do_live_image_start"
      [] name = "do_bless" -> "do_live_image_create"
      [] name = "do_discard" -> "do_live_image_delete"
      [] name = "do_gc_migrate" -> "do_cobalt_migrate"
      [] name = "do_list_launched" -> "do_live_image_servers"
      [] name = "do_list_blessed" -> "do_live_image_list"
      [] name = "do_gc_install_agent" -> "do_cobalt_install_agent"
      [] name = "launch" -> "start_live_image"
      [] name = "bless" -> "create_live_image"
      [] name = "discard" -> "delete_live_image"
      [] name = "list_launched" -> "list_live_image_servers"
      [] name = "list_blessed" -> "list_live_images"

\* the operation each alias calls: on a server list_launched stands for
\* list_servers
OperationCalled(on, name) ==
    IF on = "server" /\ name = "list_launched" THEN "list_servers"
    ELSE NamedOperation(name)

\* the same arguments, do_launch being compared on no nics
SameArguments(c) ==
    IF c.name = "do_launch" THEN [c EXCEPT !.args.nics = << >>] ELSE c

AllAliasCalls == AliasCalls("shell") \cup AliasCalls("manager") \cup AliasCalls("server")

\* what each alias can do, call by call
AliasDoes == UNION {{<<c, r>> : r \in Call(c.on, c.name, c)} : c \in AllAliasCalls}

\* what the operation named for each alias can do on the same arguments
NamedDoes ==
    UNION {{<<c, r>> : r \in Call(c.on, NamedOperation(c.name), SameArguments(c))} :
              c \in AllAliasCalls}

\* the calls on which the named operation can do what the alias cannot
NamedDoesMore == {p[1] : p \in NamedDoes \ AliasDoes}

\* the same for the operation each alias calls
CalledDoes ==
    UNION {{<<c, r>> :
               r \in Call(c.on, OperationCalled(c.on, c.name), SameArguments(c))} :
              c \in AllAliasCalls}

CalledDoesMore == {p[1] : p \in CalledDoes \ AliasDoes}

\* C13 as stated: every alias, the server's list_launched included, does only
\* what the operation of the name listed for it does when called on the same
\* object with the same arguments, and can do all of it
C13_Original ==
    alias_call.on # "none" =>
        /\ <<alias_call, alias_result>> \in NamedDoes
        /\ alias_call \notin NamedDoesMore

\* C13: every deprecated alias sends the same requests with the same
\* parameters and returns the same result as the operation it stands for on
\* the same object and arguments: the handlers and the manager methods as
\* listed (do_launch as do_live_image_start with no nics), the server methods
\* launch, bless, discard and list_blessed as the server's start_live_image,
\* create_live_image, delete_live_image and list_live_images, and the
\* server's list_launched as the server's list_servers
C13_AliasEquivalence ==
    alias_call.on # "none" =>
        /\ <<alias_call, alias_result>> \in CalledDoes
        /\ alias_call \notin CalledDoesMore

\* list_launched called on a server listed a server and fetched it
C13_Witness ==
    /\ alias_call.on = "server"
    /\ alias_call.name = "list_launched"
    /\ alias_result.run.raised = "none"
    /\ Len(alias_result.run.value) > 0
    /\ Len(alias_result.run.reqs) > 1

(***************************************************************************)
(* The attachments, read off the constructions                             *)
(***************************************************************************)
\* the managers constructed on client c, by number
ConstructedOn(c) == {n \in 1..Len(managers) : managers[n] = c}

\* what an attribute of c refers to when the first attachment stays: what the
\* client held before, else the first manager constructed on it, else nothing
FirstAttached(before, c) ==
    IF before[c] # Attribute("absent", 0) THEN before[c]
    ELSE IF ConstructedOn(c) # {}
    THEN Attribute("manager",
                   CHOOSE n \in ConstructedOn(c) : \A m \in ConstructedOn(c) : n <= m)
    ELSE Attribute("absent", 0)

\* C14: after any sequence of CoServerManager constructions, client.cobalt
\* and client.gridcentric each refer to what was attached under that name
\* first, a value present before any construction or else the first manager
\* constructed on the client, each name on its own; no construction
\* overwrites an attachment
C14_FirstAttachmentKept ==
    \A c \in Clients :
        /\ client_cobalt[c] = FirstAttached(client_before.cobalt, c)
        /\ client_gridcentric[c] = FirstAttached(client_before.gridcentric, c)

\* two managers constructed on a client that held cobalt but not gridcentric:
\* cobalt is what it was and gridcentric is the first of the two
C14_Witness ==
    \E c \in Clients :
        /\ Cardinality(ConstructedOn(c)) >= 2
        /\ client_before.cobalt[c] = Attribute("other", 0)
        /\ client_before.gridcentric[c] = Attribute("absent", 0)
        /\ client_cobalt[c] = Attribute("other", 0)
        /\ client_gridcentric[c].kind = "manager"
====
